---- MODULE Spec2Model ----
(***************************************************************************)
(* getfTDDfeat_v2.py: fused time-domain descriptors (fTDD, version 2).     *)
(*                                                                         *)
(* The module models the driver getfTDDfeat_v2 as a state machine (one     *)
(* action per statement group of the function, one action per loop         *)
(* iteration) and the moment extractor KSM1 as an operator.                *)
(*                                                                         *)
(* Numbers.  numpy's float64 values are modelled by the records            *)
(*   [k |-> "fin", n, d]   the rational n/d in lowest terms, d > 0         *)
(*   [k |-> "inf", n, d]   +Infinity (n = 1) and -Infinity (n = -1)        *)
(*   [k |-> "nan", n, d]   NaN                                             *)
(* +, -, *, / and abs are exact on the finite values and follow IEEE-754   *)
(* on the others (x/0, 0/0, inf-inf, 0*inf, ...).  The irrational          *)
(* functions are rounded down to a grid: np.sqrt and ** .1 to multiples of *)
(* 1/RES, np.log to multiples of 1/LOGRES.  Rounding error of + - * / is   *)
(* therefore not modelled, and values below the grid underflow to 0 (which *)
(* float64 does only below 2^-1074): sample values of magnitude 1, whose   *)
(* log-power transform is about 4.9e-32, are kept out of the inputs.       *)
(* np.int (line 58) is the builtin int of the numpy releases (< 1.24) the  *)
(* file was written for.                                                   *)
(***************************************************************************)
EXTENDS Integers, Sequences, FiniteSets, TLC

\* ------------------------------------------------------------------ bounds
\* (widths of the enumerated inputs; the program itself has no such limits)
MaxData == 5
MaxSignals == 2
MaxWin == 6
MaxSteps == 3
MaxInc == 2

\* ----------------------------------------------------------------- numbers
\* grid of np.sqrt and of ** .1
RES == 1024
\* grid of np.log
LOGRES == 2
\* e^(1/LOGRES) in units of 1/RES
EXPSTEP == 1688

Abs(a) ==
    IF a < 0 THEN -a ELSE a

Sgn(a) ==
    IF a < 0 THEN -1 ELSE IF a = 0 THEN 0 ELSE 1

RECURSIVE Gcd(_, _)
Gcd(a, b) ==
    IF b = 0 THEN a ELSE Gcd(b, a % b)

\* the finite value n/d (d > 0), in lowest terms
Rat(n, d) ==
    LET g == Gcd(Abs(n), d)
    IN  [k |-> "fin", n |-> n \div g, d |-> d \div g]

NaN ==
    [k |-> "nan", n |-> 0, d |-> 1]

Inf(s) ==
    [k |-> "inf", n |-> s, d |-> 1]

Zero ==
    Rat(0, 1)

IsFin(a) ==
    a.k = "fin"

IsNaN(a) ==
    a.k = "nan"

\* unary minus
FNeg(a) ==
    [a EXCEPT !.n = -a.n]

\* np.abs
FAbs(a) ==
    [a EXCEPT !.n = Abs(a.n)]

\* float64 addition
FAdd(a, b) ==
    IF IsNaN(a) \/ IsNaN(b) THEN NaN
    ELSE IF a.k = "inf" /\ b.k = "inf" THEN (IF a.n = b.n THEN a ELSE NaN)
    ELSE IF a.k = "inf" THEN a
    ELSE IF b.k = "inf" THEN b
    ELSE LET g == Gcd(a.d, b.d)
         IN  Rat(a.n * (b.d \div g) + b.n * (a.d \div g), a.d * (b.d \div g))

\* float64 subtraction
FSub(a, b) ==
    FAdd(a, FNeg(b))

\* float64 multiplication (np.multiply, *)
FMul(a, b) ==
    IF IsNaN(a) \/ IsNaN(b) THEN NaN
    ELSE IF a.k = "inf" \/ b.k = "inf"
         THEN (IF a.n = 0 \/ b.n = 0 THEN NaN ELSE Inf(Sgn(a.n) * Sgn(b.n)))
    ELSE LET g1 == Gcd(Abs(a.n), b.d)
             g2 == Gcd(Abs(b.n), a.d)
         IN  Rat((a.n \div g1) * (b.n \div g2), (a.d \div g2) * (b.d \div g1))

\* a division in which 0/0 is 0
FDivZeroByZero(a, b) ==
    IF IsNaN(a) \/ IsNaN(b) THEN NaN
    ELSE IF a.k = "inf" THEN (IF b.k = "inf" THEN NaN
                              ELSE Inf(a.n * (IF b.n < 0 THEN -1 ELSE 1)))
    ELSE IF b.k = "inf" THEN Zero
    ELSE IF b.n = 0 THEN (IF a.n = 0 THEN Zero ELSE Inf(Sgn(a.n)))
    ELSE LET g1 == Gcd(Abs(a.n), Abs(b.n))
             g2 == Gcd(a.d, b.d)
         IN  Rat(Sgn(b.n) * (a.n \div g1) * (b.d \div g2),
                 (a.d \div g2) * (Abs(b.n) \div g1))

\* float64 true division: x/0 is +-Infinity, 0/0 is NaN (a warning, no exception)
FDiv(a, b) ==
    IF IsNaN(a) \/ IsNaN(b) THEN NaN
    ELSE IF a.k = "inf" THEN (IF b.k = "inf" THEN NaN
                              ELSE Inf(a.n * (IF b.n < 0 THEN -1 ELSE 1)))
    ELSE IF b.k = "inf" THEN Zero
    ELSE IF b.n = 0 THEN (IF a.n = 0 THEN NaN ELSE Inf(Sgn(a.n)))
    ELSE LET g1 == Gcd(Abs(a.n), Abs(b.n))
             g2 == Gcd(a.d, b.d)
         IN  Rat(Sgn(b.n) * (a.n \div g1) * (b.d \div g2),
                 (a.d \div g2) * (Abs(b.n) \div g1))

\* floor(n * m1 * m2 / d) for n >= 0, without leaving 32 bits
MulDiv(n, m1, m2, d) ==
    LET q  == n \div d
        t  == (n % d) * m1
        q2 == t \div d
        r2 == t % d
    IN  q * m1 * m2 + q2 * m2 + (r2 * m2) \div d

\* largest m in lo..hi with m*m <= x (lo*lo <= x)
RECURSIVE ISqrtB(_, _, _)
ISqrtB(x, lo, hi) ==
    IF lo >= hi THEN lo
    ELSE LET mid == (lo + hi + 1) \div 2
         IN  IF mid <= x \div mid THEN ISqrtB(x, mid, hi) ELSE ISqrtB(x, lo, mid - 1)

ISqrt(x) ==
    ISqrtB(x, 0, 46340)

\* np.sqrt: NaN below 0; floor to 1/RES (to 1/32, to 1 for large arguments)
FSqrt(a) ==
    IF IsNaN(a) THEN NaN
    ELSE IF a.k = "inf" THEN (IF a.n > 0 THEN a ELSE NaN)
    ELSE IF a.n < 0 THEN NaN
    ELSE LET w == a.n \div a.d
         IN  IF w < 2047 THEN Rat(ISqrt(MulDiv(a.n, RES, RES, a.d)), RES)
             ELSE IF w < 2097151 THEN Rat(ISqrt(MulDiv(a.n, 32, 32, a.d)), 32)
             ELSE Rat(ISqrt(w), 1)

\* (r/RES)^10 in units of 1/RES, each product rounded down (r <= 2*RES)
FxPow10(r) ==
    LET y2 == (r * r) \div RES
        y4 == (y2 * y2) \div RES
        y5 == (y4 * r) \div RES
    IN  (y5 * y5) \div RES

\* largest r in lo..hi with (r/RES)^10 <= v/RES
RECURSIVE Root10B(_, _, _)
Root10B(v, lo, hi) ==
    IF lo >= hi THEN lo
    ELSE LET mid == (lo + hi + 1) \div 2
         IN  IF FxPow10(mid) <= v THEN Root10B(v, mid, hi) ELSE Root10B(v, lo, mid - 1)

\* x ** .1 for x >= 0; 1024 ** .1 = 2 brings the argument into 1 <= x < 1024
RECURSIVE FPow01(_)
FPow01(a) ==
    IF IsNaN(a) THEN NaN
    ELSE IF a.k = "inf" THEN (IF a.n > 0 THEN a ELSE NaN)
    ELSE IF a.n < 0 THEN NaN
    ELSE IF a.n = 0 THEN Zero
    ELSE IF a.n \div a.d >= 1024 THEN FMul(Rat(2, 1), FPow01(FDiv(a, Rat(1024, 1))))
    ELSE IF a.n < a.d THEN FDiv(FPow01(FMul(a, Rat(1024, 1))), Rat(2, 1))
    ELSE Rat(Root10B(MulDiv(a.n, RES, 1, a.d), RES, 2 * RES), RES)

\* e * e^(1/LOGRES), in units of 1/RES
ExpUp(e) ==
    (e \div RES) * EXPSTEP + ((e % RES) * EXPSTEP) \div RES

\* largest k with e^(k/LOGRES) <= v/RES, from e = e^(k/LOGRES) <= v
RECURSIVE LogFloor(_, _, _)
LogFloor(v, k, e) ==
    IF ExpUp(e) > v THEN k ELSE LogFloor(v, k + 1, ExpUp(e))

\* smallest k with e^(k/LOGRES) >= v/RES, from e = e^(k/LOGRES)
RECURSIVE LogCeil(_, _, _)
LogCeil(v, k, e) ==
    IF e >= v THEN k ELSE LogCeil(v, k + 1, ExpUp(e))

\* np.log: -Infinity at 0, NaN below 0; floor to 1/LOGRES
FLog(a) ==
    IF IsNaN(a) THEN NaN
    ELSE IF a.k = "inf" THEN (IF a.n > 0 THEN a ELSE NaN)
    ELSE IF a.n < 0 THEN NaN
    ELSE IF a.n = 0 THEN Inf(-1)
    ELSE IF a.n >= a.d THEN Rat(LogFloor(MulDiv(a.n, RES, 1, a.d), 0, RES), LOGRES)
    ELSE Rat(-LogCeil(MulDiv(a.d, RES, 1, a.n), 0, RES), LOGRES)

\* np.log(np.spacing(1)) = -52 ln 2, with ln 2 = 710/1024, on the grid of np.log
LogSpacing ==
    Rat((-52 * 710 * LOGRES) \div 1024, LOGRES)

\* ---------------------------------------------------------------- matrices
\* a 2-D array: shape (nr, nc), entry v[r][c] (rows and columns from 1)
\* a sequence given as a function, with every element evaluated once
Array(f) ==
    SubSeq(f, 1, Len(f))

Matrix(nr, nc, F(_, _)) ==
    [nr |-> nr, nc |-> nc,
     v  |-> Array([r \in 1..nr |-> Array([c \in 1..nc |-> F(r, c)])])]

\* np.transpose
Transpose(S) ==
    LET F(r, c) == S.v[c][r]
    IN  Matrix(S.nc, S.nr, F)

\* np.diff(S, n=1, axis=0): one row fewer
Diff(S) ==
    LET F(r, c) == FSub(S.v[r + 1][c], S.v[r][c])
    IN  Matrix(IF S.nr > 0 THEN S.nr - 1 ELSE 0, S.nc, F)

\* no row of zeros in front
PadZeroNone(S) ==
    S

\* np.concatenate([np.zeros((1,channels)), S], axis=0): one row more
PadZero(S) ==
    LET F(r, c) == IF r = 1 THEN Zero ELSE S.v[r - 1][c]
    IN  Matrix(S.nr + 1, S.nc, F)

\* np.sum(S**2, axis=0)[c], the first r rows
RECURSIVE SumSq(_, _, _)
SumSq(S, c, r) ==
    IF r = 0 THEN Zero ELSE FAdd(SumSq(S, c, r - 1), FMul(S.v[r][c], S.v[r][c]))

\* np.sum(np.abs(S), axis=0)[c], the first r rows
RECURSIVE SumAbs(_, _, _)
SumAbs(S, c, r) ==
    IF r = 0 THEN Zero ELSE FAdd(SumAbs(S, c, r - 1), FAbs(S.v[r][c]))

\* x[a:b, :] with Python's slice rules (0-based, half-open, negative indices
\* counted from the end, both ends clipped to the array)
PySlice(X, a, b) ==
    LET Clip(j) == LET t == IF j < 0 THEN j + X.nr ELSE j
                   IN  IF t < 0 THEN 0 ELSE IF t > X.nr THEN X.nr ELSE t
        lo == Clip(a)
        hi == Clip(b)
        F(r, c) == X.v[lo + r][c]
    IN  Matrix(IF hi > lo THEN hi - lo ELSE 0, X.nc, F)

\* ------------------------------------------------------------------- KSM1
\* the first derivative d1 of KSM1
Deriv1(S) ==
    Diff(PadZero(Diff(S)))

\* the second derivative d2 of KSM1, from d1
Deriv2(d1) ==
    Diff(PadZero(Diff(d1)))

\* m ** .1 / .1
Normalized(m) ==
    FDiv(FPow01(m), Rat(1, 10))

\* the block as given, without the guard
OrientedAsGiven(S) ==
    S

\* the block after the transpose guard
Oriented(S) ==
    IF S.nc > S.nr THEN Transpose(S) ELSE S

\* the six features of channel c of the oriented block S with derivatives
\* d1 and d2, before log(abs(.))
Moments(S, d1, d2, c) ==
    LET samples == S.nr
        m0 == Normalized(FSqrt(SumSq(S, c, S.nr)))
        m2 == Normalized(FSqrt(FDiv(SumSq(d1, c, d1.nr), Rat(samples - 1, 1))))
        m4 == Normalized(FSqrt(FDiv(SumSq(d2, c, d2.nr), Rat(samples - 1, 1))))
        sparsi == FDiv(m0, FSqrt(FAbs(FMul(FSub(m0, m2), FSub(m0, m4)))))
        IRF == FDiv(m2, FSqrt(FMul(m0, m4)))
        WLR == FDiv(SumAbs(d1, c, d1.nr), SumAbs(d2, c, d2.nr))
    IN  <<m0, FSub(m0, m2), FSub(m0, m4), sparsi, IRF, WLR>>

\* the flattening channel-major instead
KSM1ChannelMajor(S0) ==
    LET S == Oriented(S0)
        channels == S.nc
        d1 == Deriv1(S)
        d2 == Deriv2(d1)
        Feat == Array([c \in 1..channels |-> Moments(S, d1, d2, c)])
    IN  Array([j \in 1..(6 * channels) |->
            FLog(FAbs(Feat[((j - 1) \div 6) + 1][((j - 1) % 6) + 1]))])

\* KSM1(S): the flattened log(abs(Feat)), moment-major, 1-based
KSM1(S0) ==
    LET S == Oriented(S0)
        channels == S.nc
        d1 == Deriv1(S)
        d2 == Deriv2(d1)
        Feat == Array([c \in 1..channels |-> Moments(S, d1, d2, c)])
    IN  Array([j \in 1..(6 * channels) |->
            FLog(FAbs(Feat[((j - 1) % channels) + 1][((j - 1) \div channels) + 1]))])

\* --------------------------------------------------------- getfTDDfeat_v2
\* number of features per channel
NFPC == 6

\* a window as KSM1 receives it: the array's numbers as float64
Raw(W) ==
    LET F(r, c) == Rat(W.v[r][c], 1)
    IN  Matrix(W.nr, W.nc, F)

\* np.log(e**2 + np.spacing(1)): e**2 + 2^-52 is 2^-52 at e = 0 and rounds
\* to e**2 for |e| >= 2
PowerLog(e) ==
    IF e = 0 THEN LogSpacing ELSE FLog(Rat(e * e, 1))

\* np.log(W**2 + np.spacing(1))**2
NonLinear(W) ==
    LET F(r, c) == FMul(PowerLog(W.v[r][c]), PowerLog(W.v[r][c]))
    IN  Matrix(W.nr, W.nc, F)

\* the product with the factor +2
NumPlus(ebp, efp) ==
    Array([j \in DOMAIN ebp |-> FMul(Rat(2, 1), FMul(ebp[j], efp[j]))])

\* num = -2*np.multiply(ebp, efp)
Num(ebp, efp) ==
    Array([j \in DOMAIN ebp |-> FMul(Rat(-2, 1), FMul(ebp[j], efp[j]))])

\* den = np.multiply(efp, efp) + np.multiply(ebp, ebp)
Den(ebp, efp) ==
    Array([j \in DOMAIN ebp |-> FAdd(FMul(efp[j], efp[j]), FMul(ebp[j], ebp[j]))])

\* num-den (and num2-den2), elementwise
Minus(a, b) ==
    Array([j \in DOMAIN a |-> FSub(a[j], b[j])])

\* np.multiply(num-den, num2-den2); <<>> stands for the ValueError of two
\* operands whose lengths differ (no length here is 1, so none broadcasts)
Fuse(a, b) ==
    IF Len(a) # Len(b) THEN <<>>
    ELSE Array([j \in DOMAIN a |-> FMul(a[j], b[j])])

\* lines 72-98 for the current window x[st:en,:]: the value of
\* np.multiply(num-den, num2-den2)
FusedRow(X, st, en, steps, wininc) ==
    LET curwin == PySlice(X, st, en)
        lagwin == PySlice(X, st - steps * wininc, en - steps * wininc)
        ebp  == KSM1(Raw(lagwin))
        efp  == KSM1(NonLinear(lagwin))
        num  == Num(ebp, efp)
        den  == Den(ebp, efp)
        ebp2 == KSM1(Raw(curwin))
        efp2 == KSM1(NonLinear(curwin))
        num2 == Num(ebp2, efp2)
        den2 == Den(ebp2, efp2)
    IN  Fuse(Minus(num, den), Minus(num2, den2))

\* a loop that never goes forward
RECURSIVE SequentialLoopStuck(_, _, _, _, _, _, _)
SequentialLoopStuck(X, steps, wininc, k, st, en, feat) ==
    IF k >= feat.nr THEN feat
    ELSE SequentialLoopStuck(X, steps, wininc, k + 1, st, en,
             [feat EXCEPT !.v[k + 1] = FusedRow(X, st, en, steps, wininc)])

\* lines 69-102: the loop from iteration k on, with its running st and en
RECURSIVE SequentialLoop(_, _, _, _, _, _, _)
SequentialLoop(X, steps, wininc, k, st, en, feat) ==
    IF k >= feat.nr THEN feat
    ELSE SequentialLoop(X, steps, wininc, k + 1, st + wininc, en + wininc,
             [feat EXCEPT !.v[k + 1] = FusedRow(X, st, en, steps, wininc)])

\* a window count that is one too many
NumWinOneMore(datasize, winsize, wininc) ==
    ((datasize - winsize) \div wininc) + 2

\* numwin = np.int(np.floor((datasize - winsize)/wininc) + 1)
NumWin(datasize, winsize, wininc) ==
    ((datasize - winsize) \div wininc) + 1

\* --------------------------------------------------------------- the inputs
\* sample values (magnitude 1 is left out, see the head of the module)
WaveNames ==
    {"const", "alt", "saw", "zero"}

\* sample t (from 0) of a test signal
Wave(name, t) ==
    CASE name = "const" -> 2
      [] name = "alt"   -> IF t % 2 = 0 THEN 3 ELSE -2
      [] name = "saw"   -> IF t % 3 = 0 THEN 0 ELSE IF t % 3 = 1 THEN 2 ELSE 3
      [] OTHER          -> 0

\* the signal matrix whose channel c is the test signal names[c]
Signal(datasize, names) ==
    LET F(r, c) == Wave(names[c], r - 1)
    IN  Matrix(datasize, Len(names), F)

Signals ==
    { Signal(n, names) : n \in (MaxData - 1)..MaxData,
                         names \in UNION { [1..k -> WaveNames] : k \in 1..MaxSignals } }

\* ---------------------------------------------------------------- the state
\* x, steps, winsize, wininc: the arguments; pc: the statement to run next;
\* the others: the local variables of getfTDDfeat_v2.  pending and writes
\* are bookkeeping: the row indices not yet run (used only when the rows are
\* run in an arbitrary order) and the number of assignments to each row
VARIABLES x, steps, winsize, wininc, pc, datasize, Nsignals, numwin, feat, i, st, en,
          curwin, ebp, efp, num, den, num2, den2, pending, writes

args ==
    <<x, steps, winsize, wininc>>

shape ==
    <<datasize, Nsignals, numwin>>

window ==
    <<i, st, en>>

lagged ==
    <<num, den>>

current ==
    <<num2, den2>>

vars ==
    <<args, pc, shape, feat, window, curwin, ebp, efp, lagged, current, pending, writes>>

\* np.zeros((nr, nc))
Zeros(nr, nc) ==
    LET F(r, c) == Zero
    IN  Matrix(nr, nc, F)

\* an allocation that also refuses zero rows
NegativeOrZeroDimension(rows) ==
    rows <= 0

\* np.zeros raises ValueError for a negative dimension
NegativeDimension(rows) ==
    rows < 0

\* the call getfTDDfeat_v2(x, steps, winsize, wininc), before its first statement
Init ==
    /\ x \in Signals
    /\ steps \in 1..MaxSteps
    /\ winsize \in 1..MaxWin
    /\ wininc \in 1..MaxInc
    /\ pc = "call"
    /\ datasize = 0
    /\ Nsignals = 0
    /\ numwin = 0
    /\ feat = Zeros(0, 0)
    /\ i = 0
    /\ st = 0
    /\ en = 0
    /\ curwin = Zeros(0, 0)
    /\ ebp = <<>>
    /\ efp = <<>>
    /\ num = <<>>
    /\ den = <<>>
    /\ num2 = <<>>
    /\ den2 = <<>>
    /\ pending = {}
    /\ writes = <<>>

\* lines 56-68: the shapes, numwin, the allocation and the first window
Setup ==
    /\ pc = "call"
    /\ datasize' = x.nr
    /\ Nsignals' = x.nc
    /\ numwin' = NumWin(x.nr, winsize, wininc)
    /\ IF NegativeDimension(numwin' - steps)
       THEN /\ pc' = "ValueError"
            /\ UNCHANGED <<feat, st, en, writes>>
       ELSE /\ pc' = "for"
            /\ feat' = Zeros(numwin' - steps, x.nc * NFPC)
            /\ writes' = [r \in 1..(numwin' - steps) |-> 0]
            /\ st' = 0 + steps * wininc
            /\ en' = winsize + steps * wininc
    /\ UNCHANGED <<args, i, curwin, ebp, efp, lagged, current>>

\* lines 56-68, entering the loop of line 69
Prepare ==
    /\ Setup
    /\ UNCHANGED pending

\* line 69: for i in range(numwin-steps), entering the body
ForBody ==
    /\ pc = "for"
    /\ i < numwin - steps
    /\ pc' = "curwin"
    /\ UNCHANGED <<args, shape, feat, window, curwin, ebp, efp, lagged, current, pending, writes>>

\* line 72: curwin = x[st:en,:]
CurWin ==
    /\ pc = "curwin"
    /\ curwin' = PySlice(x, st, en)
    /\ pc' = "lagfeatures"
    /\ UNCHANGED <<args, shape, feat, window, ebp, efp, lagged, current, pending, writes>>

\* lines 75-76: ebp, efp of the previous window
LagFeatures ==
    /\ pc = "lagfeatures"
    /\ ebp' = KSM1(Raw(PySlice(x, st - steps * wininc, en - steps * wininc)))
    /\ efp' = KSM1(NonLinear(PySlice(x, st - steps * wininc, en - steps * wininc)))
    /\ pc' = "lagcorrelation"
    /\ UNCHANGED <<args, shape, feat, window, curwin, lagged, current, pending, writes>>

\* lines 79-80: num, den
LagCorrelation ==
    /\ pc = "lagcorrelation"
    /\ num' = Num(ebp, efp)
    /\ den' = Den(ebp, efp)
    /\ pc' = "curfeatures"
    /\ UNCHANGED <<args, shape, feat, window, curwin, ebp, efp, current, pending, writes>>

\* lines 83-84: ebp, efp of the current window
CurFeatures ==
    /\ pc = "curfeatures"
    /\ ebp' = KSM1(Raw(curwin))
    /\ efp' = KSM1(NonLinear(curwin))
    /\ pc' = "curcorrelation"
    /\ UNCHANGED <<args, shape, feat, window, curwin, lagged, current, pending, writes>>

\* lines 87-88: num2, den2
CurCorrelation ==
    /\ pc = "curcorrelation"
    /\ num2' = Num(ebp, efp)
    /\ den2' = Den(ebp, efp)
    /\ pc' = "assign"
    /\ UNCHANGED <<args, shape, feat, window, curwin, ebp, efp, lagged, pending, writes>>

\* line 98: feat[i,:] = np.multiply(num-den, num2-den2); a row of another
\* length than feat's is the ValueError of the assignment
Assign ==
    /\ pc = "assign"
    /\ LET row == Fuse(Minus(num, den), Minus(num2, den2))
       IN  IF Len(row) # feat.nc
           THEN /\ pc' = "ValueError"
                /\ UNCHANGED <<feat, writes>>
           ELSE /\ feat' = [feat EXCEPT !.v[i + 1] = row]
                /\ writes' = [writes EXCEPT ![i + 1] = @ + 1]
                /\ pc' = "forward"
    /\ UNCHANGED <<args, shape, window, curwin, ebp, efp, lagged, current, pending>>

\* lines 101-102: go forward, and the loop's next i
Forward ==
    /\ pc = "forward"
    /\ st' = st + wininc
    /\ en' = en + wininc
    /\ i' = i + 1
    /\ pc' = "for"
    /\ UNCHANGED <<args, shape, feat, curwin, ebp, efp, lagged, current, pending, writes>>

\* line 104: return feat, the loop being exhausted
Return ==
    /\ pc = "for"
    /\ i >= numwin - steps
    /\ pc' = "return"
    /\ UNCHANGED <<args, shape, feat, window, curwin, ebp, efp, lagged, current, pending, writes>>

Next ==
    \/ Prepare
    \/ ForBody
    \/ CurWin
    \/ LagFeatures
    \/ LagCorrelation
    \/ CurFeatures
    \/ CurCorrelation
    \/ Assign
    \/ Forward
    \/ Return

Spec ==
    Init /\ [][Next]_vars

\* ------------------------------------------- the rows in an arbitrary order
\* lines 56-68, every row index pending
PrepareAny ==
    /\ Setup
    /\ pending' = IF pc' = "for" THEN 0..(numwin' - steps - 1) ELSE {}

\* the body is entered for any pending index k, with the window of k:
\* st = (k+steps)*wininc, en = st + winsize
PickRow ==
    /\ pc = "for"
    /\ \E k \in pending :
          /\ i' = k
          /\ st' = (k + steps) * wininc
          /\ en' = (k + steps) * wininc + winsize
          /\ pending' = pending \ {k}
    /\ pc' = "curwin"
    /\ UNCHANGED <<args, shape, feat, curwin, ebp, efp, lagged, current, writes>>

\* the end of the body
NextRow ==
    /\ pc = "forward"
    /\ pc' = "for"
    /\ UNCHANGED <<args, shape, feat, window, curwin, ebp, efp, lagged, current, pending, writes>>

\* return feat, no index pending
ReturnAny ==
    /\ pc = "for"
    /\ pending = {}
    /\ pc' = "return"
    /\ UNCHANGED <<args, shape, feat, window, curwin, ebp, efp, lagged, current, pending, writes>>

NextAnyOrder ==
    \/ PrepareAny
    \/ PickRow
    \/ CurWin
    \/ LagFeatures
    \/ LagCorrelation
    \/ CurFeatures
    \/ CurCorrelation
    \/ Assign
    \/ NextRow
    \/ ReturnAny

SpecAnyOrder ==
    Init /\ [][NextAnyOrder]_vars

\* ------------------------------------------------------------------ claims
\* the statements of the loop body (lines 72-102)
BodyPcs ==
    {"curwin", "lagfeatures", "lagcorrelation", "curfeatures", "curcorrelation",
     "assign", "forward"}

\* the caller's obligations: wininc >= 1, winsize <= datasize, 1 <= steps < numwin
ValidCall ==
    /\ wininc >= 1
    /\ winsize <= x.nr
    /\ 1 <= steps
    /\ steps < NumWin(x.nr, winsize, wininc)

\* C1 (as claimed): every valid call, Nsignals > winsize included, returns a
\* matrix of numwin - steps rows and Nsignals*6 columns
C1_ShapeForEveryValidCall ==
    ValidCall =>
        /\ pc # "ValueError"
        /\ pc = "return" =>
              /\ feat.nr = NumWin(x.nr, winsize, wininc) - steps
              /\ feat.nc = x.nc * 6
              /\ Len(feat.v) = feat.nr
              /\ \A r \in 1..feat.nr : Len(feat.v[r]) = feat.nc

\* C7: inside the loop body st = (steps+i)*wininc, en = st + winsize, and the
\* current and the lagged slice lie inside the signal with winsize rows each
C7_WindowBounds ==
    pc \in BodyPcs =>
        /\ ValidCall
        /\ 0 <= i /\ i < numwin - steps
        /\ st = (steps + i) * wininc
        /\ en = st + winsize
        /\ 0 <= st - steps * wininc
        /\ en <= datasize
        /\ PySlice(x, st, en).nr = winsize
        /\ PySlice(x, st - steps * wininc, en - steps * wininc).nr = winsize

\* C7 witness: the last window of a run of several iterations ends at the
\* last sample
C7_Witness ==
    /\ pc = "assign"
    /\ i >= 1
    /\ en = datasize

\* the winsize rows of X from row start (0-based), by plain indexing
WindowAt(X, start, size) ==
    LET F(r, c) == X.v[start + r][c]
    IN  Matrix(size, X.nc, F)

\* channel c of a window, as a block of one column
ChannelOf(W, c) ==
    LET F(r, k) == W.v[r][c]
    IN  Matrix(W.nr, 1, F)

Sq(a) ==
    FMul(a, a)

\* (num - den) of one channel: the six values -2*ebp*efp - (efp^2 + ebp^2)
ChannelCorrelation(W1) ==
    LET b == KSM1(Raw(W1))
        f == KSM1(NonLinear(W1))
    IN  [m \in 1..6 |-> FSub(FMul(Rat(-2, 1), FMul(b[m], f[m])),
                             FAdd(Sq(f[m]), Sq(b[m])))]

\* C2: row r of the result is (num - den)*(num2 - den2) of the window at
\* r*wininc (lagged) and at (r+steps)*wininc (current), and its column
\* m*Nsignals + c is the fused moment m of channel c
C2_RowFormula ==
    pc = "return" =>
        \A r \in 0..(feat.nr - 1) : \A c \in 0..(Nsignals - 1) :
            LET lag == ChannelCorrelation(ChannelOf(WindowAt(x, r * wininc, winsize), c + 1))
                cur == ChannelCorrelation(
                           ChannelOf(WindowAt(x, (r + steps) * wininc, winsize), c + 1))
            IN  \A m \in 0..5 :
                    feat.v[r + 1][m * Nsignals + c + 1] = FMul(lag[m + 1], cur[m + 1])

\* C2 witness: a returned matrix of two channels and several rows with a
\* finite non-zero entry in its last row
C2_Witness ==
    /\ pc = "return"
    /\ Nsignals = 2
    /\ feat.nr >= 2
    /\ \E j \in 1..feat.nc : IsFin(feat.v[feat.nr][j]) /\ feat.v[feat.nr][j].n # 0

\* C3: a block whose two dimensions differ and its transpose give the same
\* KSM1 vector (raw and log-power version of the current window)
C3_TransposeGuard ==
    (pc = "lagfeatures" /\ curwin.nr # curwin.nc) =>
        /\ KSM1(Raw(curwin)) = KSM1(Transpose(Raw(curwin)))
        /\ KSM1(NonLinear(curwin)) = KSM1(Transpose(NonLinear(curwin)))

\* C3 witness: KSM1 receives a window with more channels than samples and
\* returns a vector with a finite entry
C3_Witness ==
    /\ pc = "lagfeatures"
    /\ curwin.nc > curwin.nr
    /\ \E j \in 1..Len(KSM1(Raw(curwin))) : IsFin(KSM1(Raw(curwin))[j])

\* channel c of W holds one non-zero value throughout
ConstantNonZero(W, c) ==
    /\ W.v[1][c] # 0
    /\ \A r \in 1..W.nr : W.v[r][c] = W.v[1][c]

\* column c of S is zero
ZeroColumn(S, c) ==
    \A r \in 1..S.nr : S.v[r][c] = Zero

\* C4 (as claimed): for a constant non-zero channel of a window of at least
\* three samples the sparseness entry and the IRF entry are both NaN
C4_SparsenessAndIRFNaN ==
    (pc = "lagfeatures" /\ curwin.nr >= 3 /\ curwin.nc <= curwin.nr) =>
        \A c \in 1..curwin.nc :
            ConstantNonZero(curwin, c) =>
                /\ IsNaN(KSM1(Raw(curwin))[3 * curwin.nc + c])
                /\ IsNaN(KSM1(Raw(curwin))[4 * curwin.nc + c])

\* C4 (amended): for such a channel d1 = d2 = 0, m2 = m4 = 0, the IRF entry
\* and the WLR entry are NaN, the sparseness entry log|m0/sqrt(m0*m0)| is
\* finite and m0's entry is finite
C4_ConstantChannel ==
    (pc = "lagfeatures" /\ curwin.nr >= 3 /\ curwin.nc <= curwin.nr) =>
        \A c \in 1..curwin.nc :
            ConstantNonZero(curwin, c) =>
                LET S == Oriented(Raw(curwin))
                    d1 == Deriv1(S)
                    d2 == Deriv2(d1)
                    M == Moments(S, d1, d2, c)
                    F == KSM1(Raw(curwin))
                IN  /\ ZeroColumn(d1, c) /\ ZeroColumn(d2, c)
                    /\ FSub(M[1], M[2]) = Zero /\ FSub(M[1], M[3]) = Zero
                    /\ IsFin(F[c]) /\ M[1].n > 0
                    /\ IsFin(F[3 * curwin.nc + c])
                    /\ IsNaN(F[4 * curwin.nc + c])
                    /\ IsNaN(F[5 * curwin.nc + c])

\* C4 witness: a window of at least three samples with a constant non-zero
\* channel
C4_Witness ==
    /\ pc = "lagfeatures"
    /\ curwin.nr >= 3
    /\ curwin.nc <= curwin.nr
    /\ \E c \in 1..curwin.nc : ConstantNonZero(curwin, c)

\* C9 (as claimed): d1 and d2 have as many rows as S
C9_DerivativesKeepRows ==
    (pc = "lagfeatures" /\ Oriented(Raw(curwin)).nr >= 3) =>
        LET S == Oriented(Raw(curwin))
        IN  /\ Deriv1(S).nr = S.nr
            /\ Deriv2(Deriv1(S)).nr = S.nr

\* C9 (amended): d1 has samples - 1 rows and d2 has samples - 2 rows
C9_DerivativesLoseRows ==
    (pc = "lagfeatures" /\ Oriented(Raw(curwin)).nr >= 3) =>
        LET S == Oriented(Raw(curwin))
        IN  /\ Deriv1(S).nr = S.nr - 1
            /\ Len(Deriv1(S).v) = S.nr - 1
            /\ Deriv2(Deriv1(S)).nr = S.nr - 2
            /\ Len(Deriv2(Deriv1(S)).v) = S.nr - 2

\* C9 witness: KSM1 is about to receive a block of at least three samples
C9_Witness ==
    /\ pc = "lagfeatures"
    /\ Oriented(Raw(curwin)).nr >= 3
    /\ Oriented(Raw(curwin)).nc = 2

\* C5 (as claimed): a call with steps >= numwin or winsize > datasize ends in
\* an error and never returns a matrix
C5_InvalidCallNeverReturns ==
    (steps >= NumWin(x.nr, winsize, wininc) \/ winsize > x.nr) =>
        pc \in {"call", "ValueError"}

\* C5 (amended): with steps > numwin or winsize > datasize the call ends in
\* the ValueError of np.zeros before the loop; with steps = numwin it raises
\* nothing and returns an empty matrix of 0 rows and Nsignals*6 columns
C5_InvalidCall ==
    /\ (steps > NumWin(x.nr, winsize, wininc) \/ winsize > x.nr) =>
           pc \in {"call", "ValueError"}
    /\ steps = NumWin(x.nr, winsize, wininc) =>
           /\ pc \in {"call", "for", "return"}
           /\ pc # "call" => (feat.nr = 0 /\ feat.nc = x.nc * 6 /\ feat.v = <<>>)

\* C5 witness: the call with steps = numwin has returned its empty matrix
C5_Witness ==
    /\ steps = NumWin(x.nr, winsize, wininc)
    /\ pc = "return"
    /\ feat.nr = 0

\* C6 (as claimed): the stored (num - den)*(num2 - den2) equals the original
\* (num/den)*(num2/den2) wherever den and den2 are finite and not zero
C6_EqualsOriginalFusion ==
    pc = "forward" =>
        \A j \in 1..feat.nc :
            (IsFin(den[j]) /\ den[j].n # 0 /\ IsFin(den2[j]) /\ den2[j].n # 0) =>
                feat.v[i + 1][j] = FMul(FDiv(num[j], den[j]), FDiv(num2[j], den2[j]))

\* C10 (as claimed): num - den = -(ebp + efp)^2 in every entry
C10_SquareIdentityEverywhere ==
    /\ pc = "curfeatures" =>
           \A j \in 1..Len(num) : FSub(num[j], den[j]) = FNeg(Sq(FAdd(ebp[j], efp[j])))
    /\ pc = "assign" =>
           \A j \in 1..Len(num2) : FSub(num2[j], den2[j]) = FNeg(Sq(FAdd(ebp[j], efp[j])))

\* C10 (amended): num - den = -(ebp + efp)^2 in every entry whose ebp and
\* efp are finite; every finite entry of the stored row is >= 0; the row is
\* the same with the lagged and the current window exchanged
C10_SquareIdentity ==
    /\ pc = "curfeatures" =>
           \A j \in 1..Len(num) :
               (IsFin(ebp[j]) /\ IsFin(efp[j])) =>
                   FSub(num[j], den[j]) = FNeg(Sq(FAdd(ebp[j], efp[j])))
    /\ pc = "assign" =>
           \A j \in 1..Len(num2) :
               (IsFin(ebp[j]) /\ IsFin(efp[j])) =>
                   FSub(num2[j], den2[j]) = FNeg(Sq(FAdd(ebp[j], efp[j])))
    /\ pc = "forward" =>
           /\ \A j \in 1..feat.nc : IsFin(feat.v[i + 1][j]) => feat.v[i + 1][j].n >= 0
           /\ feat.v[i + 1] = Fuse(Minus(num2, den2), Minus(num, den))

\* C10 witness: a stored row with a finite positive entry
C10_Witness ==
    /\ pc = "forward"
    /\ \E j \in 1..feat.nc : IsFin(feat.v[i + 1][j]) /\ feat.v[i + 1][j].n > 0

====
